---- MODULE Spec2Model ----
(***************************************************************************)
(* Model of the uniform name mapping of hlsl_into_glsl                     *)
(* (src/src/converter.rs): array_member_names, get_member_names_deep and   *)
(* find_uniform_mappings, over a reflected type graph and resource lists.  *)
(* Strings are TLA+ strings; format!() is string concatenation with the    *)
(* decimal rendering of the numbers written out digit by digit.            *)
(***************************************************************************)
EXTENDS Naturals, Sequences, FiniteSets, TLC

VARIABLES
    types,             \* the type graph behind ast.get_type / get_base_type_id / get_member_name
    query_errors,      \* the reflection queries that fail, with the ErrorCode each returns
    shader_resources,  \* what ast.get_shader_resources() returns
    pc,                \* position of the running call
    buffer_index,      \* find_uniform_mappings: next uniform buffer of the first loop
    image_index,       \* find_uniform_mappings: next sampled image of the second loop
    mappings,          \* find_uniform_mappings: the local HashMap, a function from its keys
    result,            \* what the call handed to its caller
    base_name,         \* array_member_names: argument
    array_dims,        \* array_member_names: argument
    struct_type_id     \* get_member_names_deep: argument

vars == << types, query_errors, shader_resources, pc, buffer_index, image_index,
           mappings, result, base_name, array_dims, struct_type_id >>

----------------------------------------------------------------------------
(* Bounds of the checked inputs *)

MaxDim == 2
MaxRank == 3
MaxElements == 4
MaxBuffers == 2
MaxImages == 2

----------------------------------------------------------------------------
(* Strings *)

Digit(d) == << "0", "1", "2", "3", "4", "5", "6", "7", "8", "9" >>[d + 1]

\* Display of an unsigned integer, as format!("{}", n) writes it
RECURSIVE Decimal(_)
Decimal(n) == IF n < 10 THEN Digit(n) ELSE Decimal(n \div 10) \o Digit(n % 10)

\* whether the string t occurs in the string s
Contains(s, t) ==
    \E i \in 1..(Len(s) + 1 - Len(t)) : SubSeq(s, i, i + Len(t) - 1) = t

\* the elements of a sequence, as a set
Range(s) == { s[i] : i \in DOMAIN s }

NoDuplicates(s) == \A i, j \in DOMAIN s : s[i] = s[j] => i = j

RECURSIVE Product(_)
Product(dims) == IF dims = <<>> THEN 1 ELSE Head(dims) * Product(Tail(dims))

RECURSIVE SeqsUpTo(_, _)
SeqsUpTo(S, n) ==
    IF n = 0 THEN { <<>> }
    ELSE LET shorter == SeqsUpTo(S, n - 1)
         IN  shorter \cup { Append(s, x) : s \in shorter, x \in S }

----------------------------------------------------------------------------
(* array_member_names *)

\* format!("{}[{}]", name, element)
IndexedName(name, element) == name \o "[" \o Decimal(element) \o "]"

\* the pass with the test of the first dimension lost: every dimension starts
\* again from the base name
ArrayRankNames_FromBase(prev_elements, name, rank, dim) ==
    [ k \in 1..dim |-> IndexedName(name, k - 1) ]

\* the pass taking a dimension with no element names before it for the first
ArrayRankNames_RestartWhenEmpty(prev_elements, name, rank, dim) ==
    IF rank = 0 \/ prev_elements = <<>>
    THEN [ k \in 1..dim |-> IndexedName(name, k - 1) ]
    ELSE [ k \in 1..(dim * Len(prev_elements)) |->
             IndexedName(prev_elements[((k - 1) % Len(prev_elements)) + 1],
                         (k - 1) \div Len(prev_elements)) ]

\* One pass of the loop over array_dims: the element names after dimension
\* `rank` (0-based) of size `dim`, from those of the dimensions before it.
ArrayRankNames(prev_elements, name, rank, dim) ==
    IF rank = 0
    THEN [ k \in 1..dim |-> IndexedName(name, k - 1) ]
    ELSE [ k \in 1..(dim * Len(prev_elements)) |->
             IndexedName(prev_elements[((k - 1) % Len(prev_elements)) + 1],
                         (k - 1) \div Len(prev_elements)) ]

RECURSIVE ArrayLoop(_, _, _, _)
ArrayLoop(name, dims, rank, array_element_names) ==
    IF rank = Len(dims) THEN array_element_names
    ELSE ArrayLoop(name, dims, rank + 1,
                   ArrayRankNames(array_element_names, name, rank, dims[rank + 1]))

array_member_names(name, dims) ==
    IF Len(dims) = 0 THEN << name >> ELSE ArrayLoop(name, dims, 0, <<>>)

----------------------------------------------------------------------------
(* error.rs *)

\* spirv_cross::ErrorCode
Unhandled == [ code |-> "Unhandled", msg |-> "" ]
CompilationError(msg) == [ code |-> "CompilationError", msg |-> msg ]

\* Error::CompilationFailed(msg), Error::ParseFailed(msg)
CompilationFailed(msg) == [ kind |-> "CompilationFailed", msg |-> msg ]
ParseFailed(msg) == [ kind |-> "ParseFailed", msg |-> msg ]

\* impl From<spirv_cross::ErrorCode> for Error
FromErrorCode(err) ==
    ParseFailed(IF err.code = "Unhandled" THEN "unhandled"
                ELSE "compilation failed: " \o err.msg)

NoError == [ kind |-> "None", msg |-> "" ]

----------------------------------------------------------------------------
(* The reflection queries of spirv::Ast, answered from the type graph *)

\* the spirv::Type variants the two match statements tell apart
LeafKinds == { "Float", "Double", "Int", "Int64", "UInt", "UInt64",
               "Boolean", "Char", "Half" }
OpaqueKinds == { "Image", "SampledImage", "Sampler", "AtomicCounter",
                 "Void", "Unknown" }

QueryOk(v) == [ ok |-> TRUE, val |-> v, err |-> Unhandled ]
QueryErr(e) == [ ok |-> FALSE, val |-> 0, err |-> e ]

\* A query fails when the input says so, or when it names no type.
Query(key, known, v) ==
    IF key \in DOMAIN query_errors THEN QueryErr(query_errors[key])
    ELSE IF ~known THEN QueryErr(CompilationError("invalid id"))
    ELSE QueryOk(v)

get_type(id) ==
    Query(<<"get_type", id, 0>>, id \in DOMAIN types,
          IF id \in DOMAIN types THEN types[id] ELSE 0)

get_base_type_id(id) ==
    Query(<<"get_base_type_id", id, 0>>, id \in DOMAIN types,
          IF id \in DOMAIN types THEN types[id].base ELSE 0)

get_member_name(id, index) ==
    LET known == /\ id \in DOMAIN types
                 /\ index + 1 \in DOMAIN types[id].member_names
    IN  Query(<<"get_member_name", id, index>>, known,
              IF known THEN types[id].member_names[index + 1] ELSE 0)

----------------------------------------------------------------------------
(* get_member_names_deep *)

\* What a call of get_member_names_deep ends with: Ok(names), Err(error) or
\* the panic of line 218. `queried` lists the members whose name the call
\* asked for, in the order it asked.
DeepOk(names, queried) ==
    [ tag |-> "Ok", names |-> names, error |-> NoError, queried |-> queried ]
DeepErr(error, queried) ==
    [ tag |-> "Err", names |-> <<>>, error |-> error, queried |-> queried ]
DeepPanic(queried) ==
    [ tag |-> "Panic", names |-> <<>>,
      error |-> [ kind |-> "Panic", msg |-> "uniform buffer must be a struct" ],
      queried |-> queried ]

\* the children of the first element only
StructMemberNames_FirstElement(element_names, child_names) ==
    IF element_names = <<>> THEN <<>>
    ELSE [ k \in 1..Len(child_names) |-> element_names[1] \o "." \o child_names[k] ]

\* the two names joined without the '.'
StructMemberNames_NoDot(element_names, child_names) ==
    [ k \in 1..(Len(element_names) * Len(child_names)) |->
        element_names[((k - 1) \div Len(child_names)) + 1] \o
        child_names[((k - 1) % Len(child_names)) + 1] ]

\* format!("{}.{}", element_name, child_name), element by element, child by child
StructMemberNames(element_names, child_names) ==
    [ k \in 1..(Len(element_names) * Len(child_names)) |->
        element_names[((k - 1) \div Len(child_names)) + 1] \o "." \o
        child_names[((k - 1) % Len(child_names)) + 1] ]

UnsupportedMember_NoName(member_base_name) ==
    CompilationFailed("member had an unsupported type")

\* format!("member of {} had an unsupported type", member_base_name)
UnsupportedMember(member_base_name) ==
    CompilationFailed("member of " \o member_base_name \o " had an unsupported type")

RECURSIVE get_member_names_deep(_)
RECURSIVE MemberLoop(_, _, _, _, _)

\* The loop over member_types, from member `member_id` on.
MemberLoop(id, member_types, member_id, names, queried) ==
    IF member_id = Len(member_types) THEN DeepOk(names, queried)
    ELSE
    LET member_type == member_types[member_id + 1]
        name == get_member_name(id, member_id)
        asked == Append(queried, <<id, member_id>>)
        type == get_type(member_type)
    IN
    IF ~name.ok THEN DeepErr(FromErrorCode(name.err), queried)
    ELSE IF ~type.ok THEN DeepErr(FromErrorCode(type.err), asked)
    ELSE IF type.val.kind = "Struct" THEN
        LET element_names == array_member_names(name.val, type.val.array)
            member_base_type == get_base_type_id(member_type)
            child == get_member_names_deep(member_base_type.val)
        IN  IF ~member_base_type.ok
            THEN DeepErr(FromErrorCode(member_base_type.err), asked)
            ELSE IF child.tag # "Ok"
            THEN [ child EXCEPT !.queried = asked \o child.queried ]
            ELSE MemberLoop(id, member_types, member_id + 1,
                            names \o StructMemberNames(element_names, child.names),
                            asked \o child.queried)
    ELSE IF type.val.kind \in LeafKinds THEN
        MemberLoop(id, member_types, member_id + 1,
                   names \o array_member_names(name.val, type.val.array), asked)
    ELSE DeepErr(UnsupportedMember(name.val), asked)

get_member_names_deep(id) ==
    LET type == get_type(id)
    IN  IF ~type.ok THEN DeepErr(FromErrorCode(type.err), <<>>)
        ELSE IF type.val.kind # "Struct" THEN DeepPanic(<<>>)
        ELSE MemberLoop(id, type.val.member_types, 0, <<>>, <<>>)

----------------------------------------------------------------------------
(* The inputs: type graphs as a shader compiler emits them *)

\* spirv::Type, with what the queries read of it: the members of a struct,
\* the array dimensions, and the id get_base_type_id answers
Type(kind, member_types, member_names, array, base) ==
    [ kind |-> kind, member_types |-> member_types,
      member_names |-> member_names, array |-> array, base |-> base ]

\* the struct definitions of a graph; a struct has members of lower ids only,
\* so the graph is acyclic
StructIds == { 1, 2, 3 }

\* array dimensions of up to MaxRank dimensions of sizes 0..MaxDim
AllDims == SeqsUpTo(0..MaxDim, MaxRank)

\* the dimensions of the arrays of the checked graphs: up to MaxElements elements
MemberDims == { dims \in AllDims : Product(dims) <= MaxElements }

NameSeq == << "a", "ab", "b", "ba", "c" >>

\* the debug name of member j (from 1) of struct id: distinct within a struct
MemberName(id, j) == NameSeq[((3 - id + j - 1) % Len(NameSeq)) + 1]

LeafKindSeq == << "Float", "Double", "Int", "Int64", "UInt", "UInt64",
                  "Boolean", "Char", "Half" >>
OpaqueKindSeq == << "Image", "SampledImage", "Sampler", "AtomicCounter",
                    "Void", "Unknown" >>

\* a member as declared: its kind, its array dimensions, and for a struct
\* member the struct it is an (array of) instance of
Member(kind, array, elem) == [ kind |-> kind, array |-> array, elem |-> elem ]

LeafMember(dims, n) == Member(LeafKindSeq[(n % Len(LeafKindSeq)) + 1], dims, 0)
OpaqueMember(n) == Member(OpaqueKindSeq[(n % Len(OpaqueKindSeq)) + 1], <<>>, 0)

\* the type id of member j of struct id: a struct that is no array is its own
\* type, anything else has a type id of its own
MemberTypeId(id, j, m) ==
    IF m.kind = "Struct" /\ m.array = <<>> THEN m.elem ELSE 10 * id + j

\* the type graph of the struct declarations decl: StructIds -> Seq(Member)
Graph(decl) ==
    LET member_ids == { 10 * id + j : id \in StructIds, j \in 1..9 }
        used == { i \in member_ids :
                    /\ (i % 10) \in DOMAIN decl[i \div 10]
                    /\ MemberTypeId(i \div 10, i % 10, decl[i \div 10][i % 10]) = i }
        StructType(id, array) ==
            Type("Struct",
                 [ j \in DOMAIN decl[id] |-> MemberTypeId(id, j, decl[id][j]) ],
                 [ j \in DOMAIN decl[id] |-> MemberName(id, j) ],
                 array, id)
    IN  [ i \in StructIds \cup used |->
            IF i \in StructIds THEN StructType(i, <<>>)
            ELSE LET m == decl[i \div 10][i % 10]
                 IN  IF m.kind = "Struct" THEN StructType(m.elem, m.array)
                     ELSE Type(m.kind, <<>>, <<>>, m.array, i) ]

\* The declarations of struct id, with dims the dimensions of its arrays: one
\* member that is a leaf array or an (array of) instance of a lower struct
\* (in struct 1 a leaf or a leaf array), alone, followed by a leaf, or with
\* an opaque member before or after it.
MainMembers(id, dims, n) ==
    { LeafMember(dims, n + id) }
    \cup { LeafMember(<<>>, n) : x \in { y \in StructIds : y = id /\ id = 1 } }
    \cup { Member("Struct", a, e) : a \in { <<>>, dims }, e \in { x \in StructIds : x < id } }

Decls(id, dims, n) ==
    UNION { { << m >>, << m, LeafMember(<<>>, n + 1) >>,
              << OpaqueMember(n + id), m >>, << m, OpaqueMember(n) >> } :
            m \in MainMembers(id, dims, n) }

\* every graph of three struct declarations whose arrays have dimensions dims
Graphs(dims) ==
    LET n == Len(dims) + Product(dims)
    IN  { Graph([ id \in StructIds |->
                    IF id = 1 THEN m1 ELSE IF id = 2 THEN m2 ELSE m3 ]) :
            m1 \in Decls(1, dims, n), m2 \in Decls(2, dims, n),
            m3 \in Decls(3, dims, n) }

NoQueryErrors == <<>>
NoResources == [ uniform_buffers |-> <<>>, sampled_images |-> <<>>,
                 separate_images |-> <<>> ]
NoResult == [ tag |-> "None" ]
EmptyMap == [ key \in {} |-> "" ]

----------------------------------------------------------------------------
(* array_member_names, applied to every name and dimensions of the bounds *)

InitNames ==
    /\ base_name \in Range(NameSeq)
    /\ array_dims \in AllDims
    /\ pc = "call"
    /\ result = NoResult
    /\ types = <<>>
    /\ query_errors = NoQueryErrors
    /\ shader_resources = NoResources
    /\ buffer_index = 0
    /\ image_index = 0
    /\ mappings = EmptyMap
    /\ struct_type_id = 0

ArrayMemberNames ==
    /\ pc = "call"
    /\ result' = [ tag |-> "Ok", names |-> array_member_names(base_name, array_dims) ]
    /\ pc' = "done"
    /\ UNCHANGED << types, query_errors, shader_resources, buffer_index,
                    image_index, mappings, base_name, array_dims, struct_type_id >>

NextNames == ArrayMemberNames

SpecNames == InitNames /\ [][NextNames]_vars

----------------------------------------------------------------------------
(* get_member_names_deep, applied to the root struct of every graph *)

InitDeep ==
    /\ \E dims \in MemberDims : types \in Graphs(dims)
    /\ struct_type_id = 3
    /\ query_errors = NoQueryErrors
    /\ pc = "call"
    /\ result = NoResult
    /\ shader_resources = NoResources
    /\ buffer_index = 0
    /\ image_index = 0
    /\ mappings = EmptyMap
    /\ base_name = ""
    /\ array_dims = <<>>

GetMemberNamesDeep ==
    /\ pc = "call"
    /\ result' = get_member_names_deep(struct_type_id)
    /\ pc' = "done"
    /\ UNCHANGED << types, query_errors, shader_resources, buffer_index,
                    image_index, mappings, base_name, array_dims, struct_type_id >>

NextDeep == GetMemberNamesDeep

SpecDeep == InitDeep /\ [][NextDeep]_vars

----------------------------------------------------------------------------
(* find_uniform_mappings *)

\* HashMap::insert: a key already present gets the new value
Insert(map, key, value) ==
    [ k \in DOMAIN map \cup { key } |-> IF k = key THEN value ELSE map[k] ]

RECURSIVE InsertAll(_, _)
InsertAll(map, entries) ==
    IF entries = <<>> THEN map
    ELSE InsertAll(Insert(map, Head(entries)[1], Head(entries)[2]), Tail(entries))

\* format!("_{}.{}", uniform_buffer.id, member_name)
FlatNameFormat_NoId(id, member_name) == "_." \o member_name
FlatNameFormat(id, member_name) == "_" \o Decimal(id) \o "." \o member_name

\* format!("_{}", sampled_image.id)
CompiledNameFormat(id) == "_" \o Decimal(id)

\* what find_uniform_mappings hands to its caller
Ok(uniforms) == [ tag |-> "Ok", uniforms |-> uniforms ]
Err(error) == [ tag |-> "Err", error |-> error ]
Panic(msg) == [ tag |-> "Panic", msg |-> msg ]

\* the `?` on get_member_names_deep: the error is returned, the table dropped
FlattenFailed_KeepTable(error, table) == Ok(table)
FlattenFailed(error, table) == Err(error)

\* &shader_resources.separate_images[image_index]
SeparateImage_First(separate_images, index) == separate_images[1]
SeparateImage(separate_images, index) == separate_images[index + 1]

\* let shader_resources = ast.get_shader_resources()?; let mut mappings = HashMap::new();
GetShaderResources ==
    /\ pc = "start"
    /\ LET r == Query(<<"get_shader_resources", 0, 0>>, TRUE, shader_resources)
       IN  IF r.ok
           THEN /\ pc' = "buffers"
                /\ result' = result
           ELSE /\ pc' = "done"
                /\ result' = Err(FromErrorCode(r.err))
    /\ mappings' = EmptyMap
    /\ UNCHANGED << types, query_errors, shader_resources, buffer_index,
                    image_index, base_name, array_dims, struct_type_id >>

\* one pass of the loop over shader_resources.uniform_buffers
FlattenUniformBuffer ==
    /\ pc = "buffers"
    /\ buffer_index < Len(shader_resources.uniform_buffers)
    /\ LET uniform_buffer == shader_resources.uniform_buffers[buffer_index + 1]
           member_names == get_member_names_deep(uniform_buffer.base_type_id)
       IN  CASE member_names.tag = "Ok" ->
                  /\ mappings' = InsertAll(mappings,
                        [ k \in DOMAIN member_names.names |->
                            << FlatNameFormat(uniform_buffer.id, member_names.names[k]),
                               member_names.names[k] >> ])
                  /\ buffer_index' = buffer_index + 1
                  /\ UNCHANGED << pc, result >>
             [] member_names.tag = "Err" ->
                  /\ result' = FlattenFailed(member_names.error, mappings)
                  /\ pc' = "done"
                  /\ UNCHANGED << mappings, buffer_index >>
             [] member_names.tag = "Panic" ->
                  /\ result' = Panic(member_names.error.msg)
                  /\ pc' = "done"
                  /\ UNCHANGED << mappings, buffer_index >>
    /\ UNCHANGED << types, query_errors, shader_resources, image_index,
                    base_name, array_dims, struct_type_id >>

\* the first loop is over
EndOfUniformBuffers ==
    /\ pc = "buffers"
    /\ buffer_index = Len(shader_resources.uniform_buffers)
    /\ pc' = "images"
    /\ UNCHANGED << types, query_errors, shader_resources, buffer_index, image_index,
                    mappings, result, base_name, array_dims, struct_type_id >>

\* one pass of the loop over shader_resources.sampled_images
MapSampledImage ==
    /\ pc = "images"
    /\ image_index < Len(shader_resources.sampled_images)
    /\ LET sampled_image == shader_resources.sampled_images[image_index + 1]
       IN  IF image_index < Len(shader_resources.separate_images)
           THEN LET image == SeparateImage(shader_resources.separate_images, image_index)
                IN  /\ mappings' = Insert(mappings, CompiledNameFormat(sampled_image.id),
                                          image.name)
                    /\ image_index' = image_index + 1
                    /\ UNCHANGED << pc, result >>
           ELSE /\ result' = Panic("index out of bounds")
                /\ pc' = "done"
                /\ UNCHANGED << mappings, image_index >>
    /\ UNCHANGED << types, query_errors, shader_resources, buffer_index,
                    base_name, array_dims, struct_type_id >>

\* Ok(mappings)
ReturnMappings ==
    /\ pc = "images"
    /\ image_index = Len(shader_resources.sampled_images)
    /\ result' = Ok(mappings)
    /\ pc' = "done"
    /\ UNCHANGED << types, query_errors, shader_resources, buffer_index, image_index,
                    mappings, base_name, array_dims, struct_type_id >>

Next ==
    \/ GetShaderResources
    \/ FlattenUniformBuffer
    \/ EndOfUniformBuffers
    \/ MapSampledImage
    \/ ReturnMappings

\* sequences of up to n different elements of S
InjectiveSeqs(S, n) == { s \in SeqsUpTo(S, n) : NoDuplicates(s) }

\* The type graphs of the checked builds: struct 1 of a leaf array and a leaf,
\* struct 2 with an Opaque member before or after an (array of) struct 1,
\* struct 3 of an array of struct 1 and a leaf; 11 is the type of a leaf.
BuildGraphs(dims) ==
    LET n == Len(dims) + Product(dims)
    IN  { Graph([ id \in StructIds |->
                    IF id = 1 THEN << LeafMember(dims, n), LeafMember(<<>>, n + 1) >>
                    ELSE IF id = 2 THEN m2
                    ELSE << Member("Struct", dims, 1), LeafMember(<<>>, n) >> ]) :
            m2 \in { << Member("Struct", dims, 1), OpaqueMember(n) >>,
                     << OpaqueMember(n), Member("Struct", <<>>, 1) >> } }

BuildDims == SeqsUpTo(0..MaxDim, 1)

\* the ids the compiler gave the resources: different for different resources
BufferIds == { 7, 8, 70 }
ImageIds == { 5, 9, 90 }
ImageNames == { "tex", "shadow" }

\* Resource lists of up to n entries
UniformBuffers(n) ==
    { [ k \in DOMAIN p[1] |-> [ id |-> p[1][k], base_type_id |-> p[2][k] ] ] :
        p \in { q \in InjectiveSeqs(BufferIds, n) \X SeqsUpTo(StructIds \cup { 11 }, n) :
                  Len(q[1]) = Len(q[2]) } }
SampledImages(n) ==
    { [ k \in DOMAIN ids |-> [ id |-> ids[k], name |-> "" ] ] :
        ids \in InjectiveSeqs(ImageIds, n) }
SeparateImages(n) ==
    { [ k \in DOMAIN names |-> [ id |-> 100 + k, name |-> names[k] ] ] :
        names \in SeqsUpTo(ImageNames, n) }

\* no query fails, or one does, with either error code
QueryErrors ==
    { NoQueryErrors }
    \cup { key :> code :
             key \in { <<"get_shader_resources", 0, 0>>, <<"get_type", 1, 0>>,
                       <<"get_type", 3, 0>>, <<"get_member_name", 1, 1>>,
                       <<"get_base_type_id", types[3].member_types[1], 0>> },
             code \in { Unhandled, CompilationError("bad id") } }

\* Every list of up to MaxBuffers buffers over every graph and failing query,
\* with no or one texture; and every pair of lists of up to MaxImages
\* textures, with no or one buffer.
Init ==
    /\ \E dims \in BuildDims : types \in BuildGraphs(dims)
    /\ \/ /\ query_errors \in QueryErrors
          /\ \E buffers \in UniformBuffers(MaxBuffers),
                images \in SampledImages(1) :
                shader_resources =
                    [ uniform_buffers |-> buffers,
                      sampled_images |-> images,
                      separate_images |->
                          [ k \in DOMAIN images |-> [ id |-> 100 + k, name |-> "tex" ] ] ]
       \/ /\ query_errors = NoQueryErrors
          /\ \E buffers \in { b \in UniformBuffers(1) :
                                \A k \in DOMAIN b : b[k].id = 7 /\ b[k].base_type_id = 3 },
                sampled \in SampledImages(MaxImages),
                separate \in SeparateImages(MaxImages) :
                shader_resources =
                    [ uniform_buffers |-> buffers,
                      sampled_images |-> sampled,
                      separate_images |-> separate ]
    /\ pc = "start"
    /\ buffer_index = 0
    /\ image_index = 0
    /\ mappings = EmptyMap
    /\ result = NoResult
    /\ base_name = ""
    /\ array_dims = <<>>
    /\ struct_type_id = 0

Spec == Init /\ [][Next]_vars

----------------------------------------------------------------------------
(* What the claims are stated with *)

StartsWith(s, t) == Len(t) <= Len(s) /\ SubSeq(s, 1, Len(t)) = t

\* the index combinations of an array: one index below each dimension
RECURSIVE IndexTuples(_)
IndexTuples(dims) ==
    IF dims = <<>> THEN { <<>> }
    ELSE { << i >> \o rest : i \in { x \in 0..Head(dims) : x < Head(dims) },
                             rest \in IndexTuples(Tail(dims)) }

\* name[i0][i1]...[in], the first index next to the name
RECURSIVE Rendered(_, _)
Rendered(name, idx) ==
    IF idx = <<>> THEN name
    ELSE Rendered(name \o "[" \o Decimal(Head(idx)) \o "]", Tail(idx))

Done == pc = "done"

\* C2: array_member_names(base_name, dims) is <<base_name>> for no
\* dimensions; for dimensions of positive sizes its strings are exactly the
\* renderings base_name[i0]...[in] of the Cartesian product of the index
\* ranges, i0 ranging over dims[0], each once: as many as the product of dims.
C2_CartesianProduct ==
    Done =>
        /\ array_dims = <<>> => result.names = << base_name >>
        /\ (array_dims # <<>> /\ \A k \in DOMAIN array_dims : array_dims[k] > 0) =>
              /\ Range(result.names) =
                   { Rendered(base_name, idx) : idx \in IndexTuples(array_dims) }
              /\ Len(result.names) = Product(array_dims)
              /\ NoDuplicates(result.names)

\* a three-dimensional array of at least two elements in each dimension was expanded
C2_Witness ==
    /\ Done
    /\ Len(array_dims) = 3
    /\ \A k \in DOMAIN array_dims : array_dims[k] >= 2
    /\ Len(result.names) >= 8

\* the type of member j (from 1) of struct id, and its debug name
MemberTypeOf(id, j) == types[types[id].member_types[j]]
MemberNameOf(id, j) == types[id].member_names[j]

\* the structs a flattening of struct id descends into
RECURSIVE StructsUnder(_)
StructsUnder(id) ==
    { id } \cup UNION { StructsUnder(types[m].base) :
                          m \in { x \in Range(types[id].member_types) :
                                    types[x].kind = "Struct" } }

\* the members the call asked the name of, as <<struct id, member from 1>>
Queried == { << q[1], q[2] + 1 >> : q \in Range(result.queried) }
IsOpaque(q) == MemberTypeOf(q[1], q[2]).kind \in OpaqueKinds
HasZeroDim(q) == 0 \in Range(MemberTypeOf(q[1], q[2]).array)

\* The member paths of struct id as section 4.2 of the specification defines
\* them, with a member that has a dimension of size 0 left out.
RECURSIVE MemberPaths(_)
MemberPaths(id) ==
    UNION { LET type == MemberTypeOf(id, j)
                name == MemberNameOf(id, j)
            IN  IF 0 \in Range(type.array) THEN {}
                ELSE IF type.kind = "Struct"
                THEN { Rendered(name, idx) \o "." \o child :
                         idx \in IndexTuples(type.array),
                         child \in MemberPaths(type.base) }
                ELSE IF type.kind \in LeafKinds
                THEN { Rendered(name, idx) : idx \in IndexTuples(type.array) }
                ELSE {} :
            j \in DOMAIN types[id].member_types }

\* the paths of result.names that member j of the flattened struct produced
PathsOfMember(j) ==
    LET name == MemberNameOf(struct_type_id, j)
        Mine(path) == StartsWith(path, name \o ".") \/ StartsWith(path, name \o "[")
                        \/ path = name
    IN  SelectSeq(result.names, Mine)

\* C3: a struct member B with dimensions d1..dn whose element struct flattens
\* to M child paths produces exactly M * (d1*...*dn) paths, one
\* "<element_name>.<child_path>" for every element name of the expansion of B
\* and every child path; with no dimensions, the M paths "B.<child_path>".
C3_StructMemberPaths ==
    (Done /\ result.tag = "Ok") =>
        \A j \in DOMAIN types[struct_type_id].member_types :
            LET type == MemberTypeOf(struct_type_id, j)
                name == MemberNameOf(struct_type_id, j)
                child_paths == get_member_names_deep(type.base).names
                produced == PathsOfMember(j)
            IN  type.kind = "Struct" =>
                  /\ Len(produced) = Len(child_paths) * Product(type.array)
                  /\ Range(produced) =
                       { element \o "." \o child :
                           element \in Range(array_member_names(name, type.array)),
                           child \in Range(child_paths) }
                  /\ type.array = <<>> =>
                       Range(produced) = { name \o "." \o child : child \in Range(child_paths) }

\* an array of structs of two dimensions whose element has two children was flattened
C3_Witness ==
    /\ Done /\ result.tag = "Ok"
    /\ \E j \in DOMAIN types[struct_type_id].member_types :
          LET type == MemberTypeOf(struct_type_id, j)
          IN  /\ type.kind = "Struct"
              /\ Len(type.array) = 2
              /\ Product(type.array) = 4
              /\ Len(get_member_names_deep(type.base).names) >= 2
              /\ Len(PathsOfMember(j)) >= 8

\* C6: when a struct the flattening descends into has an Opaque member, the
\* call fails with the unsupported-member error whose message names the first
\* Opaque member reached; that member is the last one the call looked at, so
\* no member is flattened after it, and no list of names is returned.
C6_OpaqueMemberFails ==
    Done =>
        LET opaque_declared ==
                \E id \in StructsUnder(struct_type_id) :
                    \E j \in DOMAIN types[id].member_types : IsOpaque(<<id, j>>)
            n == Len(result.queried)
            last == << result.queried[n][1], result.queried[n][2] + 1 >>
        IN  opaque_declared =>
              /\ result.tag = "Err"
              /\ result.error.kind = "CompilationFailed"
              /\ result.names = <<>>
              /\ n > 0
              /\ IsOpaque(last)
              /\ Contains(result.error.msg, MemberNameOf(last[1], last[2]))
              /\ \A k \in 1..(n - 1) :
                    ~IsOpaque(<< result.queried[k][1], result.queried[k][2] + 1 >>)

\* an Opaque member two structs below the root, declared before a sibling,
\* made the call fail
C6_Witness ==
    /\ Done /\ result.tag = "Err"
    /\ Len(result.queried) >= 3
    /\ LET n == Len(result.queried)
           last == << result.queried[n][1], result.queried[n][2] + 1 >>
       IN  /\ IsOpaque(last)
           /\ last[1] = 1
           /\ last[2] < Len(types[1].member_types)

\* C9: with the members of each struct named differently, by names without
\* '.' or '[', the list of paths a flattening returns holds no string twice.
C9_PathsUnique ==
    (Done /\ result.tag = "Ok") => NoDuplicates(result.names)

\* nested arrays of structs of arrays were flattened to at least eight paths
C9_Witness ==
    /\ Done /\ result.tag = "Ok"
    /\ Len(result.names) >= 8
    /\ \E path \in Range(result.names) : Contains(path, "].") /\ Contains(path, "][")
    /\ Cardinality(StructsUnder(struct_type_id)) = 3

\* C10: a Leaf or Struct member with a dimension of size 0, at any position,
\* expands to no element name and contributes no path, and that is no error:
\* unless an Opaque member is reached, the call succeeds with exactly the
\* paths of the members without such a dimension.
C10_ZeroDimension ==
    Done =>
        \A q \in Queried :
            (~IsOpaque(q) /\ HasZeroDim(q)) =>
                /\ array_member_names(MemberNameOf(q[1], q[2]),
                                      MemberTypeOf(q[1], q[2]).array) = <<>>
                /\ (\A o \in Queried : ~IsOpaque(o)) =>
                      /\ result.tag = "Ok"
                      /\ Range(result.names) = MemberPaths(struct_type_id)

\* an array of structs with a dimension of size 0 between two others was
\* passed over and the sibling after it flattened
C10_Witness ==
    /\ Done /\ result.tag = "Ok"
    /\ result.names # <<>>
    /\ \E q \in Queried :
          /\ q[1] = struct_type_id
          /\ MemberTypeOf(q[1], q[2]).kind = "Struct"
          /\ Len(MemberTypeOf(q[1], q[2]).array) = 3
          /\ MemberTypeOf(q[1], q[2]).array[2] = 0
          /\ MemberTypeOf(q[1], q[2]).array[1] > 0
          /\ MemberTypeOf(q[1], q[2]).array[3] > 0
          /\ get_member_names_deep(MemberTypeOf(q[1], q[2]).base).names # <<>>

UniformBufferList == shader_resources.uniform_buffers
SampledImageList == shader_resources.sampled_images
SeparateImageList == shader_resources.separate_images

\* the paths flattening buffer k yields
BufferPaths(k) == get_member_names_deep(UniformBufferList[k].base_type_id).names

RECURSIVE SumOfLengths(_)
SumOfLengths(k) == IF k = 0 THEN 0 ELSE Len(BufferPaths(k)) + SumOfLengths(k - 1)

\* the keys of the buffer members: those with a '.'
BufferKeys(map) == { key \in DOMAIN map : Contains(key, ".") }

\* C1: for buffers of different ids whose flattening succeeds, the mapping
\* holds "_<buffer.id>.<P>" -> P for every buffer and every path P of its
\* base struct, no other key with a '.', and as many such keys as there are
\* paths over all buffers: no buffer's entry is overwritten by another's.
C1_BufferEntries ==
    (Done /\ result.tag = "Ok") =>
        /\ \A k \in DOMAIN UniformBufferList : \A path \in Range(BufferPaths(k)) :
              LET key == "_" \o Decimal(UniformBufferList[k].id) \o "." \o path
              IN  key \in DOMAIN result.uniforms /\ result.uniforms[key] = path
        /\ \A key \in BufferKeys(result.uniforms) :
              \E k \in DOMAIN UniformBufferList : \E path \in Range(BufferPaths(k)) :
                  key = "_" \o Decimal(UniformBufferList[k].id) \o "." \o path
        /\ Cardinality(BufferKeys(result.uniforms)) = SumOfLengths(Len(UniformBufferList))

\* two buffers of the same base struct, each of several paths, were mapped
C1_Witness ==
    /\ Done /\ result.tag = "Ok"
    /\ Len(UniformBufferList) = 2
    /\ UniformBufferList[1].base_type_id = UniformBufferList[2].base_type_id
    /\ Len(BufferPaths(1)) >= 3
    /\ Cardinality(BufferKeys(result.uniforms)) >= 6

\* C4: with as many combined samplers as separate textures, the mapping
\* holds "_<sampled_images[i].id>" -> separate_images[i].name for every i.
C4_SampledImageEntries ==
    (Done /\ result.tag = "Ok" /\ Len(SampledImageList) = Len(SeparateImageList)) =>
        \A i \in DOMAIN SampledImageList :
            LET key == "_" \o Decimal(SampledImageList[i].id)
            IN  /\ key \in DOMAIN result.uniforms
                /\ result.uniforms[key] = SeparateImageList[i].name

\* two combined samplers were paired with two textures of different names
C4_Witness ==
    /\ Done /\ result.tag = "Ok"
    /\ Len(SampledImageList) = 2 /\ Len(SeparateImageList) = 2
    /\ SeparateImageList[1].name # SeparateImageList[2].name
    /\ Cardinality(DOMAIN result.uniforms \ BufferKeys(result.uniforms)) = 2

\* the resource query succeeds and every buffer flattens
BuffersFlatten ==
    /\ <<"get_shader_resources", 0, 0>> \notin DOMAIN query_errors
    /\ \A k \in DOMAIN UniformBufferList :
          get_member_names_deep(UniformBufferList[k].base_type_id).tag = "Ok"

\* C5: when the combined-sampler list and the separate-texture list differ
\* in length, in either direction, the build fails with a ResourceListMismatch
\* error.
C5_LengthMismatchIsAnError ==
    (Done /\ BuffersFlatten /\ Len(SampledImageList) # Len(SeparateImageList)) =>
        /\ result.tag = "Err"
        /\ result.error.kind = "ResourceListMismatch"

\* C7: for every input the build ends by returning a mapping or by returning
\* one of the errors; it never ends any other way.
C7_ReturnsMappingOrError ==
    Done => result.tag \in { "Ok", "Err" }

\* the first buffer that does not flatten, if any
FirstFailure ==
    { k \in DOMAIN UniformBufferList :
        /\ get_member_names_deep(UniformBufferList[k].base_type_id).tag # "Ok"
        /\ \A j \in 1..(k - 1) :
              get_member_names_deep(UniformBufferList[j].base_type_id).tag = "Ok" }

\* C8: when the flattening of a buffer fails with an error, from an Opaque
\* member or a failed query, also after earlier buffers were inserted, the
\* build returns that error and nothing else: no mapping reaches the caller.
C8_AllOrNothing ==
    Done =>
        \A k \in FirstFailure :
            LET failed == get_member_names_deep(UniformBufferList[k].base_type_id)
            IN  (failed.tag = "Err" /\ <<"get_shader_resources", 0, 0>> \notin DOMAIN query_errors)
                  => result = [ tag |-> "Err", error |-> failed.error ]

\* a failed query in the second buffer, after the entries of the first were inserted
C8_Witness ==
    /\ Done /\ result.tag = "Err"
    /\ result.error.kind = "ParseFailed"
    /\ buffer_index = 1
    /\ DOMAIN mappings # {}

====
